---- MODULE Spec2Model ----
(***************************************************************************)
(* pdbscraper.py: the settings resolver (get_arguments, get_settings), the *)
(* URL list builder (build_url_list), the page loop of create_database     *)
(* driving one Firefox session, add_header_data, write_database and main.  *)
(*                                                                         *)
(* Python values are modelled as options: None is the empty tuple and any  *)
(* other value v is the one-element tuple <<v>>.  A float number of        *)
(* seconds is written as its decimal text ("0.4", "0.1", "1").             *)
(***************************************************************************)
EXTENDS Integers, Sequences, FiniteSets, TLC

VARIABLES
    arguments,      \* dict returned by get_arguments (key -> option value)
    cfgfile,        \* what is on disk at the --config path
    settings,       \* dict returned by get_settings
    pc,             \* position of the process in main / create_database
    stdout,         \* lines printed so far
    raised,         \* exception propagating out of main ("" when none)
    exitcode,       \* process exit status, None while running
    session,        \* the Firefox session: "unopened", "open", "closed"
    opened,         \* number of sessions started so far
    url_list,       \* build_url_list(settings)
    idx,            \* index in url_list of the url being processed (1-based)
    visited,        \* urls passed to driver.get, in call order
    attempt,        \* polls made by page_load's ready loop on this page
    found,          \* the ready loop saw the marker container on this page
    clicks,         \* layout selections done on this page
    keys,           \* PAGE_DOWN key events sent on this page
    ncontainers,    \* containers returned by find_elements on this page
    ci,             \* containers already handed to get_game_data
    database,       \* the list built by create_database / add_header_data
    harvested,      \* number of get_game_data calls that returned a record
    outfile,        \* content written to settings['output'], None if none
    database_path,  \* main's database_path, None before it is assigned
    writes          \* how many times write_database has been called

vars == <<arguments, cfgfile, settings, pc, stdout, raised, exitcode, session,
          opened, url_list, idx, visited, attempt, found, clicks, keys,
          ncontainers, ci, database, harvested, outfile, database_path, writes>>

run_vars == <<session, opened, url_list, idx, visited, attempt, found, clicks,
              keys, ncontainers, ci, database, harvested, outfile,
              database_path, writes>>

(***************************************************************************)
(* Bounds of the model.                                                    *)
(***************************************************************************)
MaxArgs == 2        \* options (other than --config) passed on the commandline
MaxCfgKeys == 1     \* keys present in the config file
MaxPages == 2       \* largest --maxpages of a modelled run
MaxContainers == 2  \* most game containers rendered on one page

(***************************************************************************)
(* Python values.                                                          *)
(***************************************************************************)
None == <<>>

Some(v) == <<v>>

\* truth value of a bool-or-None setting (if settings['test']: ...)
Truthy(v) == v # None /\ v[1] = TRUE

\* truth value of a str-or-None setting (if not settings['output']: ...)
TruthyStr(v) == v # None /\ v[1] # ""

\* str() of a str-or-None value, as an f-string formats it
PyStr(v) == IF v = None THEN "None" ELSE v[1]

Digit(d) ==
    CASE d = 0 -> "0" [] d = 1 -> "1" [] d = 2 -> "2" [] d = 3 -> "3"
      [] d = 4 -> "4" [] d = 5 -> "5" [] d = 6 -> "6" [] d = 7 -> "7"
      [] d = 8 -> "8" [] d = 9 -> "9"

RECURSIVE StrNat(_)
StrNat(n) == IF n < 10 THEN Digit(n) ELSE StrNat(n \div 10) \o Digit(n % 10)

\* str() of an int
Str(n) == IF n < 0 THEN "-" \o StrNat(0 - n) ELSE StrNat(n)

\* dict.update: every key of e overwrites or extends d
Update(d, e) ==
    [k \in DOMAIN d \cup DOMAIN e |-> IF k \in DOMAIN e THEN e[k] ELSE d[k]]

(***************************************************************************)
(* get_arguments: the dict argparse produces.  Every option is a key; an   *)
(* option that was not passed, and a store_true flag that is false, is     *)
(* None.                                                                   *)
(***************************************************************************)
Keys ==
    {"config", "output", "driver", "optimize", "source", "sort", "native",
     "maxpages", "initpage", "pagedown", "wait", "printconfig", "test", "fast"}

\* the values each option can take when it is passed (a sample of them)
ArgChoices ==
    [config      |-> << Some("settings.json") >>,
     output      |-> << Some("games.json"), Some("") >>,
     driver      |-> << Some("/opt/geckodriver") >>,
     optimize    |-> << Some(TRUE) >>,
     source      |-> << Some("http://localhost/explore") >>,
     sort        |-> << Some("userScore") >>,
     native      |-> << Some(TRUE) >>,
     maxpages    |-> << Some(3), Some(0) >>,
     initpage    |-> << Some(5) >>,
     pagedown    |-> << Some(1) >>,
     wait        |-> << Some("0.2") >>,
     printconfig |-> << Some(TRUE) >>,
     test        |-> << Some(TRUE) >>,
     fast        |-> << Some(TRUE) >>]

\* the dict for the options in S, passed with the values numbered by c
get_arguments(S, c) ==
    [k \in Keys |-> IF k \in S THEN ArgChoices[k][c[k]] ELSE None]

(***************************************************************************)
(* The config file: absent, not JSON, or a JSON object.  Its keys are any  *)
(* recognized key or an unrecognized one; a JSON value may be null.        *)
(***************************************************************************)
CfgKeys == Keys \cup {"comment"}

CfgChoices ==
    [config      |-> << Some("other.json") >>,
     output      |-> << Some("saved.json"), Some(""), None >>,
     driver      |-> << Some("/usr/bin/geckodriver"), None >>,
     optimize    |-> << Some(TRUE), Some(FALSE) >>,
     source      |-> << Some("http://mirror/explore"), None >>,
     sort        |-> << Some("playerCount"), None >>,
     native      |-> << Some(TRUE), Some(FALSE) >>,
     maxpages    |-> << Some(1), None >>,
     initpage    |-> << Some(2), None >>,
     pagedown    |-> << Some(3) >>,
     wait        |-> << Some("0.7") >>,
     printconfig |-> << Some(TRUE), Some(FALSE) >>,
     test        |-> << Some(TRUE), Some(FALSE), None >>,
     fast        |-> << Some(TRUE), Some(FALSE) >>,
     comment     |-> << Some("nightly") >>]

JsonObject(S, c) == [kind |-> "json", data |-> [k \in S |-> CfgChoices[k][c[k]]]]

AbsentFile == [kind |-> "absent", data |-> <<>>]

InvalidFile == [kind |-> "invalid", data |-> <<>>]

(***************************************************************************)
(* get_settings                                                            *)
(***************************************************************************)
\* Internal default values. (priority low)
Defaults ==
    [config      |-> None,
     output      |-> None,
     driver      |-> Some("/usr/local/bin/geckodriver"),
     optimize    |-> Some(FALSE),
     source      |-> Some("https://www.protondb.com/explore"),
     sort        |-> Some("wilsonRating"),
     native      |-> Some(FALSE),
     maxpages    |-> Some(20),
     initpage    |-> Some(0),
     pagedown    |-> Some(10),
     wait        |-> Some("0.4"),
     printconfig |-> Some(FALSE),
     test        |-> Some(FALSE),
     fast        |-> Some(FALSE)]

ConfigReadUncaught(args, file) ==
    IF ~TruthyStr(args["config"]) THEN "skipped"
    ELSE IF file.kind \in {"absent", "invalid"} THEN "JSONDecodeError"
    ELSE "loaded"

\* what the try block around the config file does
ConfigRead(args, file) ==
    IF ~TruthyStr(args["config"]) THEN "skipped"
    ELSE IF file.kind = "absent" THEN "FileNotFoundError"
    ELSE IF file.kind = "invalid" THEN "JSONDecodeError"
    ELSE "loaded"

\* Config file. (priority mid)
AfterConfig(args, file) ==
    IF ConfigRead(args, file) = "loaded" THEN Update(Defaults, file.data)
    ELSE Defaults

AfterArgumentsAll(s, args) == Update(s, args)

\* Users's program arguments. (priority high)
AfterArguments(s, args) ==
    [k \in DOMAIN s \cup DOMAIN args |->
        IF k \in DOMAIN args /\ args[k] # None THEN args[k] ELSE s[k]]

TestPresetKeepOutput(s) ==
    [s EXCEPT !["optimize"] = Some(FALSE), !["maxpages"] = Some(2),
              !["initpage"] = Some(0), !["pagedown"] = Some(10),
              !["wait"] = Some("1"), !["printconfig"] = Some(TRUE)]

TestPreset(s) ==
    [s EXCEPT !["optimize"] = Some(FALSE), !["maxpages"] = Some(2),
              !["initpage"] = Some(0), !["pagedown"] = Some(10),
              !["wait"] = Some("1"), !["output"] = None,
              !["printconfig"] = Some(TRUE)]

\* str(datetime.datetime.utcnow().date()) on the day of the run
UtcToday == "2020-11-02"

\* Build up default output filename.
DefaultOutput(s) ==
    [s EXCEPT !["output"] =
        Some("protondb-" \o PyStr(s["sort"]) \o "-" \o UtcToday \o ".json")]

FastPreset(s) ==
    [s EXCEPT !["optimize"] = Some(TRUE), !["wait"] = Some("0.1")]

PresetsFastFirst(s) ==
    LET f == IF Truthy(s["fast"]) THEN FastPreset(s) ELSE s
    IN  IF Truthy(f["test"]) THEN TestPreset(f)
        ELSE IF ~TruthyStr(f["output"]) THEN DefaultOutput(f)
        ELSE f

\* Presets with special behaviour and to force settings. (priority highest)
Presets(s) ==
    LET t == IF Truthy(s["test"]) THEN TestPreset(s)
             ELSE IF ~TruthyStr(s["output"]) THEN DefaultOutput(s)
             ELSE s
    IN  IF Truthy(t["fast"]) THEN FastPreset(t) ELSE t

get_settings(args, file) ==
    Presets(AfterArguments(AfterConfig(args, file), args))

(***************************************************************************)
(* build_url_list                                                          *)
(***************************************************************************)
UrlOptions(s) ==
    "&sort=" \o PyStr(s["sort"])
        \o (IF Truthy(s["native"]) THEN "&selectedFilters=includeNative" ELSE "")

\* range(settings['maxpages']) needs an int; the loop body concatenates
\* settings['source'] (a str) and str(index + settings['initpage']) (an int)
UrlListRaises(s) ==
    \/ s["maxpages"] = None
    \/ /\ s["maxpages"][1] > 0
       /\ (s["source"] = None \/ s["initpage"] = None)

BuildUrlListFromOne(s) ==
    [i \in 1 .. (IF s["maxpages"][1] > 0 THEN s["maxpages"][1] ELSE 0) |->
        s["source"][1] \o "?page=" \o Str(i + s["initpage"][1])
            \o UrlOptions(s)]

build_url_list(s) ==
    [i \in 1 .. (IF s["maxpages"][1] > 0 THEN s["maxpages"][1] ELSE 0) |->
        s["source"][1] \o "?page=" \o Str((i - 1) + s["initpage"][1])
            \o UrlOptions(s)]

(***************************************************************************)
(* The rendered catalog.  What a page shows is up to the site: how many    *)
(* game containers there are, and whether a container has every            *)
(* sub-element get_game_data looks for.                                    *)
(***************************************************************************)
\* the container at position j (1-based, document order) of the i-th url
Container(i, j) ==
    [appid   |-> Str(100 * i + j),
     title   |-> "Game " \o Str(100 * i + j),
     rating  |-> "gold",
     reports |-> Str(j)]

\* get_game_data on a container that has every sub-element
get_game_data(container) ==
    [appid   |-> container.appid,
     title   |-> container.title,
     rating  |-> container.rating,
     reports |-> container.reports]

(***************************************************************************)
(* Initial states.                                                         *)
(***************************************************************************)
InitProcess ==
    /\ settings = <<>>
    /\ pc = "get_settings"
    /\ stdout = <<>>
    /\ raised = ""
    /\ exitcode = None
    /\ session = "unopened"
    /\ opened = 0
    /\ url_list = <<>>
    /\ idx = 0
    /\ visited = <<>>
    /\ attempt = 0
    /\ found = FALSE
    /\ clicks = 0
    /\ keys = 0
    /\ ncontainers = 0
    /\ ci = 0
    /\ database = <<>>
    /\ harvested = 0
    /\ outfile = None
    /\ database_path = None
    /\ writes = 0

\* the value numbers c pick a value of ch for every key of S
Picks(S, c, ch) == \A k \in S : c[k] <= Len(ch[k])

\* the config file, when --config names one
InitConfigFile ==
    \/ cfgfile = AbsentFile
    \/ cfgfile = InvalidFile
    \/ \E T \in SUBSET CfgKeys :
          /\ Cardinality(T) <= MaxCfgKeys
          /\ \E d \in [T -> 1 .. 3] :
                /\ Picks(T, d, CfgChoices)
                /\ cfgfile = JsonObject(T, d)

\* every commandline of at most MaxArgs options, with or without --config
InitSetup ==
    /\ \E S \in SUBSET (Keys \ {"config"}) :
          /\ Cardinality(S) <= MaxArgs
          /\ \E c \in [S -> 1 .. 2] :
                /\ Picks(S, c, ArgChoices)
                /\ \/ /\ arguments = get_arguments(S, c)
                      /\ cfgfile = AbsentFile
                   \/ /\ arguments =
                            [get_arguments(S, c) EXCEPT
                                !["config"] = ArgChoices["config"][1]]
                      /\ InitConfigFile
    /\ InitProcess

\* options a modelled run may pass besides --maxpages
RunFlags == {"test", "fast", "output", "pagedown"}

\* config files of a modelled run
InitRunConfigFile ==
    \/ cfgfile = AbsentFile
    \/ cfgfile = InvalidFile
    \/ \E k \in {"fast", "test", "output"} :
          cfgfile = JsonObject({k}, [x \in {k} |-> 1])
    \/ \E c \in 2 .. 3 :
          cfgfile = JsonObject({"output"}, [x \in {"output"} |-> c])

\* the commandlines of the modelled runs: --maxpages is always passed, so
\* that the page loop stays within MaxPages (or is 2 under the test preset)
Init ==
    /\ \E S \in SUBSET RunFlags, m \in 0 .. MaxPages :
          LET args == [get_arguments(S, [k \in S |-> 1]) EXCEPT
                          !["maxpages"] = Some(m)]
          IN  \/ /\ arguments = args
                 /\ cfgfile = AbsentFile
              \/ /\ arguments =
                       [args EXCEPT !["config"] = ArgChoices["config"][1]]
                 /\ InitRunConfigFile
    /\ InitProcess

(***************************************************************************)
(* main, up to the page loop                                               *)
(***************************************************************************)
\* settings = get_settings(arguments)
GetSettings ==
    /\ pc = "get_settings"
    /\ IF ConfigRead(arguments, cfgfile) = "JSONDecodeError"
       THEN /\ raised' = "JSONDecodeError in get_settings"
            /\ pc' = "traceback"
            /\ UNCHANGED <<settings, stdout>>
       ELSE /\ settings' = get_settings(arguments, cfgfile)
            /\ stdout' =
                 IF ConfigRead(arguments, cfgfile) = "FileNotFoundError"
                 THEN Append(stdout,
                             "Config file not found: " \o PyStr(Defaults["config"]))
                 ELSE stdout
            /\ pc' = "printconfig"
            /\ UNCHANGED raised
    /\ UNCHANGED <<arguments, cfgfile, exitcode, run_vars>>

\* if settings['printconfig']: print(get_jsonstring(settings))
PrintConfig ==
    /\ pc = "printconfig"
    /\ stdout' = IF Truthy(settings["printconfig"])
                 THEN Append(stdout, "<settings as json>")
                 ELSE stdout
    /\ pc' = "create_database"
    /\ UNCHANGED <<arguments, cfgfile, settings, raised, exitcode, run_vars>>

\* with Firefox(...) as driver: the session starts, or the driver cannot be
\* started and the constructor raises
StartSession ==
    /\ pc = "create_database"
    /\ \/ /\ session' = "open"
          /\ opened' = opened + 1
          /\ pc' = "build_url_list"
          /\ UNCHANGED raised
       \/ /\ raised' = "WebDriverException in Firefox"
          /\ pc' = "traceback"
          /\ UNCHANGED <<session, opened>>
    /\ UNCHANGED <<arguments, cfgfile, settings, stdout, exitcode, url_list,
                   idx, visited, attempt, found, clicks, keys, ncontainers, ci,
                   database, harvested, outfile, database_path, writes>>

\* for url in build_url_list(settings): the list is built once
BuildUrlList ==
    /\ pc = "build_url_list"
    /\ IF UrlListRaises(settings)
       THEN /\ raised' = "TypeError in build_url_list"
            /\ pc' = "with_exit"
            /\ UNCHANGED url_list
       ELSE /\ url_list' = build_url_list(settings)
            /\ pc' = "for_url"
            /\ UNCHANGED raised
    /\ UNCHANGED <<arguments, cfgfile, settings, stdout, exitcode, session,
                   opened, idx, visited, attempt, found, clicks, keys,
                   ncontainers, ci, database, harvested, outfile,
                   database_path, writes>>

(***************************************************************************)
(* create_database: the page loop inside the with block                    *)
(***************************************************************************)
\* for _ in range(5) in page_load
ReadyAttempts == 5

loop_unchanged == <<arguments, cfgfile, settings, stdout, exitcode, session,
                    opened, url_list, outfile, database_path, writes>>

\* for url in ...: the next url, or the end of the loop
NextUrl ==
    /\ pc = "for_url"
    /\ IF idx < Len(url_list)
       THEN /\ idx' = idx + 1
            /\ pc' = "page_load"
       ELSE /\ pc' = "with_exit"
            /\ UNCHANGED idx
    /\ UNCHANGED <<loop_unchanged, raised, visited, attempt, found, clicks,
                   keys, ncontainers, ci, database, harvested>>

\* page_load: driver.get(url); the navigation succeeds or raises
PageLoadGet ==
    /\ pc = "page_load"
    /\ visited' = Append(visited, url_list[idx])
    /\ attempt' = 0
    /\ found' = FALSE
    /\ clicks' = 0
    /\ keys' = 0
    /\ ncontainers' = 0
    /\ ci' = 0
    /\ \/ /\ pc' = "ready_loop"
          /\ UNCHANGED raised
       \/ /\ raised' = "WebDriverException in driver.get"
          /\ pc' = "with_exit"
    /\ UNCHANGED <<loop_unchanged, idx, database, harvested>>

ReadyPollWithoutBreak ==
    /\ pc = "ready_loop"
    /\ attempt < ReadyAttempts
    /\ attempt' = attempt + 1
    /\ \E marker \in BOOLEAN :
          /\ found' = (found \/ marker)
          /\ pc' = IF attempt + 1 = ReadyAttempts
                   THEN "page_loaded" ELSE "ready_loop"
    /\ UNCHANGED <<loop_unchanged, raised, idx, visited, clicks, keys,
                   ncontainers, ci, database, harvested>>

\* one pass of page_load's ready loop: find_element returns the marker
\* container (break) or raises NoSuchElementException (pass)
ReadyPoll ==
    /\ pc = "ready_loop"
    /\ attempt < ReadyAttempts
    /\ attempt' = attempt + 1
    /\ \E marker \in BOOLEAN :
          /\ found' = marker
          /\ pc' = IF marker \/ attempt + 1 = ReadyAttempts
                   THEN "page_loaded" ELSE "ready_loop"
    /\ UNCHANGED <<loop_unchanged, raised, idx, visited, clicks, keys,
                   ncontainers, ci, database, harvested>>

\* if not settings['fast']: page_select_layout_cell(driver); the layout
\* switch is found and clicked, or a find_element raises
SelectLayout ==
    /\ pc = "page_loaded"
    /\ IF Truthy(settings["fast"])
       THEN /\ pc' = "scroll"
            /\ UNCHANGED <<clicks, raised>>
       ELSE \E layout \in BOOLEAN :
               IF layout
               THEN /\ clicks' = clicks + 1
                    /\ pc' = "scroll"
                    /\ UNCHANGED raised
               ELSE /\ raised' =
                         "NoSuchElementException in page_select_layout_cell"
                    /\ pc' = "with_exit"
                    /\ UNCHANGED clicks
    /\ UNCHANGED <<loop_unchanged, idx, visited, attempt, found, keys,
                   ncontainers, ci, database, harvested>>

PageScrollDownUnlessFast ==
    /\ pc = "scroll"
    /\ IF settings["pagedown"] = None
       THEN /\ raised' = "TypeError in page_scroll_down"
            /\ pc' = "with_exit"
            /\ UNCHANGED <<keys, ncontainers>>
       ELSE IF keys < settings["pagedown"][1] /\ ~Truthy(settings["fast"])
       THEN /\ keys' = keys + 1
            /\ UNCHANGED <<pc, raised, ncontainers>>
       ELSE /\ pc' = "find_elements"
            /\ UNCHANGED <<keys, raised, ncontainers>>
    /\ UNCHANGED <<loop_unchanged, idx, visited, attempt, found, clicks, ci,
                   database, harvested>>

\* page_scroll_down: one pass of for _ in range(settings['pagedown']),
\* sending PAGE_DOWN, or the end of that loop
PageScrollDown ==
    /\ pc = "scroll"
    /\ IF settings["pagedown"] = None
       THEN /\ raised' = "TypeError in page_scroll_down"
            /\ pc' = "with_exit"
            /\ UNCHANGED <<keys, ncontainers>>
       ELSE IF keys < settings["pagedown"][1]
       THEN /\ keys' = keys + 1
            /\ UNCHANGED <<pc, raised, ncontainers>>
       ELSE /\ pc' = "find_elements"
            /\ UNCHANGED <<keys, raised, ncontainers>>
    /\ UNCHANGED <<loop_unchanged, idx, visited, attempt, found, clicks, ci,
                   database, harvested>>

\* html.find_elements(...): the game containers rendered at that moment,
\* in document order
FindContainers ==
    /\ pc = "find_elements"
    /\ \E n \in 0 .. MaxContainers : ncontainers' = n
    /\ pc' = "extract"
    /\ UNCHANGED <<loop_unchanged, raised, idx, visited, attempt, found,
                   clicks, keys, ci, database, harvested>>

ExtractPrepending ==
    /\ pc = "extract"
    /\ IF ci < ncontainers
       THEN \E wellformed \in BOOLEAN :
               IF wellformed
               THEN /\ database' =
                         <<get_game_data(Container(idx, ci + 1))>> \o database
                    /\ harvested' = harvested + 1
                    /\ ci' = ci + 1
                    /\ UNCHANGED <<pc, raised>>
               ELSE /\ raised' = "NoSuchElementException in get_game_data"
                    /\ pc' = "with_exit"
                    /\ UNCHANGED <<database, harvested, ci>>
       ELSE /\ pc' = "for_url"
            /\ UNCHANGED <<raised, database, harvested, ci>>
    /\ UNCHANGED <<loop_unchanged, idx, visited, attempt, found, clicks, keys,
                   ncontainers>>

\* database.append(get_game_data(game_container)) for the next container,
\* which has every sub-element or lacks one (find_element raises); after
\* the last container the loop goes on with the next url
Extract ==
    /\ pc = "extract"
    /\ IF ci < ncontainers
       THEN \E wellformed \in BOOLEAN :
               IF wellformed
               THEN /\ database' =
                         Append(database, get_game_data(Container(idx, ci + 1)))
                    /\ harvested' = harvested + 1
                    /\ ci' = ci + 1
                    /\ UNCHANGED <<pc, raised>>
               ELSE /\ raised' = "NoSuchElementException in get_game_data"
                    /\ pc' = "with_exit"
                    /\ UNCHANGED <<database, harvested, ci>>
       ELSE /\ pc' = "for_url"
            /\ UNCHANGED <<raised, database, harvested, ci>>
    /\ UNCHANGED <<loop_unchanged, idx, visited, attempt, found, clicks, keys,
                   ncontainers>>

WithExitOnSuccessOnly ==
    /\ pc = "with_exit"
    /\ session' = IF raised = "" THEN "closed" ELSE session
    /\ pc' = IF raised = "" THEN "add_header_data" ELSE "traceback"
    /\ UNCHANGED <<arguments, cfgfile, settings, stdout, raised, exitcode,
                   opened, url_list, idx, visited, attempt, found, clicks, keys,
                   ncontainers, ci, database, harvested, outfile,
                   database_path, writes>>

\* leaving the with block, normally or by an exception: Firefox.__exit__
\* quits the session; then create_database returns or the exception goes on
WithExit ==
    /\ pc = "with_exit"
    /\ session' = "closed"
    /\ pc' = IF raised = "" THEN "add_header_data" ELSE "traceback"
    /\ UNCHANGED <<arguments, cfgfile, settings, stdout, raised, exitcode,
                   opened, url_list, idx, visited, attempt, found, clicks, keys,
                   ncontainers, ci, database, harvested, outfile,
                   database_path, writes>>

(***************************************************************************)
(* main, after create_database                                             *)
(***************************************************************************)
\* str(datetime.datetime.utcnow()) when the header is built
UtcNow == "2020-11-02 06:00:00.000000"

AddHeaderReplaceFirst(db, s) ==
    LET meta == Update([creator   |-> Some("https://github.com/thingsiplay/protondb_scraper"),
                        timestamp |-> Some(UtcNow)], s)
    IN  IF db = <<>> THEN <<meta>> ELSE [db EXCEPT ![1] = meta]

\* add_header_data(database, settings): meta is inserted at index 0
add_header_data(db, s) ==
    LET meta == Update([creator   |-> Some("https://github.com/thingsiplay/protondb_scraper"),
                        timestamp |-> Some(UtcNow)], s)
    IN  <<meta>> \o db

AddHeaderData ==
    /\ pc = "add_header_data"
    /\ database' = add_header_data(database, settings)
    /\ pc' = "write_database"
    /\ UNCHANGED <<arguments, cfgfile, settings, stdout, raised, exitcode,
                   session, opened, url_list, idx, visited, attempt, found,
                   clicks, keys, ncontainers, ci, harvested, outfile,
                   database_path, writes>>

\* the working directory of the process
Cwd == "/home/user"

\* os.path.abspath of a relative path
AbsPath(p) == Cwd \o "/" \o p

\* what open(settings['output'], 'w') can do
OpenOutcomes ==
    {"opened", "IsADirectoryError", "PermissionError", "FileNotFoundError"}

\* the value write_database returns when open() had this outcome
WritePath(outcome, path) ==
    IF outcome = "opened" THEN Some(AbsPath(path)) ELSE None

WriteDatabaseAlways ==
    /\ pc = "write_database"
    /\ IF settings["output"] = None
       THEN /\ writes' = writes + 1
            /\ raised' = "TypeError in write_database"
            /\ pc' = "traceback"
            /\ UNCHANGED <<stdout, outfile, database_path>>
       ELSE \E outcome \in OpenOutcomes :
               IF outcome = "FileNotFoundError"
               THEN /\ writes' = writes + 1
                    /\ raised' = "FileNotFoundError in write_database"
                    /\ pc' = "traceback"
                    /\ UNCHANGED <<stdout, outfile, database_path>>
               ELSE /\ writes' = writes + 1
                    /\ database_path' = WritePath(outcome, settings["output"][1])
                    /\ outfile' = IF outcome = "opened"
                                  THEN Some([json |-> database]) ELSE outfile
                    /\ stdout' =
                         IF outcome = "IsADirectoryError"
                         THEN Append(stdout, "Cannot write output file as: "
                                             \o settings["output"][1])
                         ELSE IF outcome = "PermissionError"
                         THEN Append(stdout,
                                     "No permission to write output file to: "
                                     \o settings["output"][1])
                         ELSE stdout
                    /\ pc' = "report"
                    /\ UNCHANGED raised
    /\ UNCHANGED <<arguments, cfgfile, settings, exitcode, session, opened,
                   url_list, idx, visited, attempt, found, clicks, keys,
                   ncontainers, ci, database, harvested>>

\* if not settings['test']: database_path = write_database(database, settings)
\* else: database_path = ''
WriteDatabase ==
    /\ pc = "write_database"
    /\ IF Truthy(settings["test"])
       THEN /\ database_path' = Some("")
            /\ pc' = "report"
            /\ UNCHANGED <<stdout, raised, outfile, writes>>
       ELSE IF settings["output"] = None
       THEN /\ writes' = writes + 1
            /\ raised' = "TypeError in write_database"
            /\ pc' = "traceback"
            /\ UNCHANGED <<stdout, outfile, database_path>>
       ELSE \E outcome \in OpenOutcomes :
               IF outcome = "FileNotFoundError"
               THEN /\ writes' = writes + 1
                    /\ raised' = "FileNotFoundError in write_database"
                    /\ pc' = "traceback"
                    /\ UNCHANGED <<stdout, outfile, database_path>>
               ELSE /\ writes' = writes + 1
                    /\ database_path' = WritePath(outcome, settings["output"][1])
                    /\ outfile' = IF outcome = "opened"
                                  THEN Some([json |-> database]) ELSE outfile
                    /\ stdout' =
                         IF outcome = "IsADirectoryError"
                         THEN Append(stdout, "Cannot write output file as: "
                                             \o settings["output"][1])
                         ELSE IF outcome = "PermissionError"
                         THEN Append(stdout,
                                     "No permission to write output file to: "
                                     \o settings["output"][1])
                         ELSE stdout
                    /\ pc' = "report"
                    /\ UNCHANGED raised
    /\ UNCHANGED <<arguments, cfgfile, settings, exitcode, session, opened,
                   url_list, idx, visited, attempt, found, clicks, keys,
                   ncontainers, ci, database, harvested>>

\* the line print(len(database) - 1, 'games processed in:', database_path)
FinalLine(db, path) ==
    Str(Len(db) - 1) \o " games processed in: " \o PyStr(path)

\* the final print, return 0 and sys.exit(main())
Report ==
    /\ pc = "report"
    /\ stdout' = Append(stdout, FinalLine(database, database_path))
    /\ exitcode' = Some(0)
    /\ pc' = "exited"
    /\ UNCHANGED <<arguments, cfgfile, settings, raised, run_vars>>

TracebackStatusZero ==
    /\ pc = "traceback"
    /\ exitcode' = Some(0)
    /\ pc' = "exited"
    /\ UNCHANGED <<arguments, cfgfile, settings, stdout, raised, run_vars>>

\* an exception left main: the interpreter prints the traceback and the
\* process ends with status 1
Traceback ==
    /\ pc = "traceback"
    /\ exitcode' = Some(1)
    /\ pc' = "exited"
    /\ UNCHANGED <<arguments, cfgfile, settings, stdout, raised, run_vars>>

(***************************************************************************)
(* Specifications.                                                         *)
(***************************************************************************)
\* one run of the program
Next ==
    \/ GetSettings
    \/ PrintConfig
    \/ StartSession
    \/ BuildUrlList
    \/ NextUrl
    \/ PageLoadGet
    \/ ReadyPoll
    \/ SelectLayout
    \/ PageScrollDown
    \/ FindContainers
    \/ Extract
    \/ WithExit
    \/ AddHeaderData
    \/ WriteDatabase
    \/ Report
    \/ Traceback

Spec == Init /\ [][Next]_vars

\* the program up to the first url, over every commandline and config file
\* within MaxArgs and MaxCfgKeys
NextSetup ==
    \/ GetSettings
    \/ PrintConfig
    \/ StartSession
    \/ BuildUrlList

SpecSetup == InitSetup /\ [][NextSetup]_vars

\* one run of the program that goes on as long as it has a step to take:
\* the process is a single thread whose sleeps are finite
FairSpec == Spec /\ WF_vars(Next)

(***************************************************************************)
(* Properties of get_settings and build_url_list, checked under SpecSetup. *)
(***************************************************************************)
\* get_settings has returned
Resolved == DOMAIN settings # {}

\* the config file was named on the commandline, is a JSON object and has k
ConfigFileHas(k) ==
    /\ TruthyStr(arguments["config"])
    /\ cfgfile.kind = "json"
    /\ k \in DOMAIN cfgfile.data

\* commandline value if passed, else config-file value if present, else the
\* value of the default table
ByPrecedence(k) ==
    IF arguments[k] # None THEN arguments[k]
    ELSE IF ConfigFileHas(k) THEN cfgfile.data[k]
    ELSE Defaults[k]

TestKeys ==
    {"optimize", "maxpages", "initpage", "pagedown", "wait", "output",
     "printconfig"}

FastKeys == {"optimize", "wait"}

\* the keys a preset that is active in the resolved settings assigns
TouchedByActivePreset ==
    (IF Truthy(settings["test"]) THEN TestKeys ELSE {})
        \cup (IF Truthy(settings["fast"]) THEN FastKeys ELSE {})

\* C1 as stated: every key that no active preset touches resolves to the
\* commandline value, else the config-file value, else the default-table
\* value.  It fails for output when the test preset is inactive.
C1_PrecedenceOnEveryKey ==
    Resolved =>
        \A k \in Keys \ TouchedByActivePreset : settings[k] = ByPrecedence(k)

\* C1, amended: every key other than output that no active preset touches
\* resolves to the commandline value, else the config-file value, else the
\* default-table value; output, when the test preset is inactive, resolves
\* to the value so selected if that is a non-empty path and to the default
\* filename protondb-<sort>-<UTC date>.json otherwise.
C1_Precedence ==
    Resolved =>
        \A k \in Keys \ TouchedByActivePreset :
            IF k = "output" /\ ~TruthyStr(ByPrecedence(k))
            THEN settings[k] = Some("protondb-" \o PyStr(settings["sort"])
                                       \o "-" \o UtcToday \o ".json")
            ELSE settings[k] = ByPrecedence(k)

\* the commandline and the config file both give sort, nothing gives output
C1_Witness ==
    /\ Resolved
    /\ arguments["sort"] # None
    /\ ConfigFileHas("sort")
    /\ settings["sort"] = arguments["sort"]
    /\ ~Truthy(settings["test"])
    /\ ByPrecedence("output") = None

\* C2: whenever the resolved test is true, the resolved output is None,
\* whatever the config file or the commandline gave for output, and also
\* when fast is true.
C2_TestForcesOutputUnset ==
    (Resolved /\ Truthy(settings["test"])) => settings["output"] = None

\* test and fast are both true and the commandline passed an output path
C2_Witness ==
    /\ Resolved
    /\ Truthy(settings["test"])
    /\ Truthy(settings["fast"])
    /\ TruthyStr(arguments["output"])
    /\ settings["output"] = None

\* C3: whenever the resolved fast is true, the resolved optimize is True
\* and the resolved wait is 0.1, also when test is true.
C3_FastForcesOptimizeAndWait ==
    (Resolved /\ Truthy(settings["fast"])) =>
        /\ settings["optimize"] = Some(TRUE)
        /\ settings["wait"] = Some("0.1")

\* test and fast are both true and the commandline passed test
C3_Witness ==
    /\ Resolved
    /\ Truthy(settings["fast"])
    /\ Truthy(settings["test"])
    /\ arguments["test"] # None
    /\ settings["wait"] = Some("0.1")
    /\ settings["maxpages"] = Some(2)

\* build_url_list has returned its list
UrlListBuilt == pc = "for_url"

\* C4: build_url_list returns maxpages urls (none for 0); the url at
\* 0-based position i is source?page=<i + initpage>&sort=<sort>, followed by
\* &selectedFilters=includeNative exactly when native is true; maxpages=3,
\* initpage=5, sort=playerCount without native gives pages 5, 6, 7.
C4_UrlList ==
    UrlListBuilt =>
        /\ Len(url_list) = settings["maxpages"][1]
        /\ \A i \in 0 .. Len(url_list) - 1 :
              url_list[i + 1] =
                  settings["source"][1] \o "?page="
                      \o Str(i + settings["initpage"][1])
                      \o "&sort=" \o PyStr(settings["sort"])
                      \o (IF Truthy(settings["native"])
                          THEN "&selectedFilters=includeNative" ELSE "")
        /\ (/\ settings["maxpages"] = Some(3)
            /\ settings["initpage"] = Some(5)
            /\ settings["sort"] = Some("playerCount")
            /\ settings["source"] = Defaults["source"]
            /\ ~Truthy(settings["native"]))
           => url_list =
                <<"https://www.protondb.com/explore?page=5&sort=playerCount",
                  "https://www.protondb.com/explore?page=6&sort=playerCount",
                  "https://www.protondb.com/explore?page=7&sort=playerCount">>

\* the list for maxpages=3, initpage=5, sort=playerCount, native false
C4_Witness ==
    /\ UrlListBuilt
    /\ settings["maxpages"] = Some(3)
    /\ settings["initpage"] = Some(5)
    /\ settings["sort"] = Some("playerCount")
    /\ ~Truthy(settings["native"])
    /\ Len(url_list) = 3

(***************************************************************************)
(* Properties of a run, checked under Spec.                                *)
(***************************************************************************)
\* the ready loop of the current page made all its polls and none found
\* the marker container
ReadyExhausted == attempt = ReadyAttempts /\ ~found

\* C5 as stated: on a page whose ready-check was exhausted the run does not
\* abort before that page is extracted; the only exception that can end
\* the run on such a page is the one get_game_data raises on a malformed
\* container.  It fails when fast is inactive and the layout switch is not
\* rendered either.
C5_ExhaustedReadyCheckStillExtracts ==
    (ReadyExhausted /\ raised # "") =>
        raised = "NoSuchElementException in get_game_data"

InPageLoop ==
    pc \in {"page_load", "ready_loop", "page_loaded", "scroll",
            "find_elements", "extract"}

AfterWithBlock ==
    pc \in {"add_header_data", "write_database", "report", "exited"}
        \/ (pc = "traceback" /\ raised # "JSONDecodeError in get_settings"
                             /\ raised # "WebDriverException in Firefox")

\* C6: create_database opens one session; once the with block is left, by
\* the end of the loop or by an exception raised inside it, the session is
\* closed, and it is still closed when the process ends; every page
\* operation happens while the session is open.
C6_SessionClosed ==
    /\ opened <= 1
    /\ (InPageLoop \/ pc \in {"build_url_list", "for_url", "with_exit"})
          => (opened = 1 /\ session = "open")
    /\ AfterWithBlock => (opened = 1 => session = "closed")
    /\ (pc = "exited" /\ opened = 1) => session = "closed"
    /\ session = "closed" => ~InPageLoop

\* a container without a title ended the run and the session is closed
C6_Witness ==
    /\ pc = "exited"
    /\ raised = "NoSuchElementException in get_game_data"
    /\ opened = 1
    /\ session = "closed"

\* add_header_data has returned
HeaderAdded ==
    \/ pc \in {"write_database", "report"}
    \/ pc = "exited" /\ raised = ""
    \/ raised \in {"FileNotFoundError in write_database",
                   "TypeError in write_database"}

\* C7: after add_header_data the first element of the database is the
\* header, the others are the records, and len(database) - 1 is the number
\* of records harvested, zero included; the final line prints that number.
C7_HeaderAndCount ==
    HeaderAdded =>
        /\ Len(database) - 1 = harvested
        /\ {"creator", "timestamp"} \subseteq DOMAIN database[1]
        /\ \A k \in Keys : database[1][k] = settings[k]
        /\ \A i \in 2 .. Len(database) :
              DOMAIN database[i] = {"appid", "title", "rating", "reports"}
        /\ (pc = "exited" /\ raised = "") =>
              stdout[Len(stdout)] =
                  Str(harvested) \o " games processed in: "
                      \o PyStr(database_path)

\* a run over two pages that harvested nothing and printed the count 0
C7_Witness ==
    /\ pc = "exited"
    /\ raised = ""
    /\ Len(visited) = 2
    /\ harvested = 0
    /\ Len(database) = 1

\* --config names a file that does not exist
ConfigMissing == TruthyStr(arguments["config"]) /\ cfgfile.kind = "absent"

\* C8: when the config file does not exist, get_settings returns the
\* defaults overlaid with the commandline, then the presets, after printing
\* a warning; a run that then completes exits with status 0.
C8_MissingConfigIsNotFatal ==
    (ConfigMissing /\ pc # "get_settings") =>
        /\ Resolved
        /\ settings = Presets(AfterArguments(Defaults, arguments))
        /\ Len(stdout) >= 1
        /\ stdout[1] = "Config file not found: None"
        /\ raised # "JSONDecodeError in get_settings"
        /\ (pc = "exited" /\ raised = "") => exitcode = Some(0)

\* a run with a missing config file and --fast ended with status 0
C8_Witness ==
    /\ ConfigMissing
    /\ pc = "exited"
    /\ exitcode = Some(0)
    /\ arguments["fast"] # None
    /\ settings["wait"] = Some("0.1")

\* C9 as stated: the status is 0 on every run that completes, and a
\* process that ends with a status other than 0 had a navigation failure.
\* It fails: every exception that leaves main ends the process with
\* status 1, and a navigation failure is only one of them.
C9_NonZeroOnlyOnNavigationFailure ==
    pc = "exited" =>
        /\ raised = "" => exitcode = Some(0)
        /\ exitcode # Some(0) => raised = "WebDriverException in driver.get"

\* the exceptions that leave main
Uncaught ==
    {"JSONDecodeError in get_settings", "WebDriverException in Firefox",
     "TypeError in build_url_list", "WebDriverException in driver.get",
     "NoSuchElementException in page_select_layout_cell",
     "TypeError in page_scroll_down",
     "NoSuchElementException in get_game_data",
     "FileNotFoundError in write_database", "TypeError in write_database"}

\* write_database failed on a directory or on missing permission
WriteFailureReported ==
    \E i \in 1 .. Len(stdout) :
          \/ stdout[i] = "Cannot write output file as: "
                             \o PyStr(settings["output"])
          \/ stdout[i] = "No permission to write output file to: "
                             \o PyStr(settings["output"])

\* C9, amended: the status is 0 on every run in which main returns, also
\* after write_database failed on a directory or on missing permission; it
\* is other than 0 only when an exception left main uncaught, which a
\* navigation failure does, and so do an element that is not found during
\* layout selection or extraction, a driver that does not start, a config
\* file that is not JSON and an output path whose directory does not exist.
C9_ExitStatus ==
    pc = "exited" =>
        /\ raised = "" <=> exitcode = Some(0)
        /\ raised \in Uncaught <=> exitcode = Some(1)
        /\ (Resolved /\ WriteFailureReported) => exitcode = Some(0)

\* a malformed container on the first page ended the run with status 1
C9_Witness ==
    /\ pc = "exited"
    /\ exitcode = Some(1)
    /\ raised = "NoSuchElementException in get_game_data"
    /\ Len(visited) = 1

\* C10 as stated: after a directory or permission failure write_database
\* returns no path, the process goes on and the final line is
\* "<N> games processed in: " with N the record count and an empty path.
\* It fails: the path printed is the text None.
C10_WriteFailureReportsEmptyPath ==
    (pc = "exited" /\ raised = "" /\ ~Truthy(settings["test"])
        /\ database_path = None) =>
        /\ exitcode = Some(0)
        /\ stdout[Len(stdout)] = Str(harvested) \o " games processed in: "

(***************************************************************************)
(* Further properties of get_settings, checked under SpecSetup.            *)
(***************************************************************************)
\* the options that have a default value other than None
ConcreteKeys == Keys \ {"config", "output"}

\* C11 as stated: after get_settings returns, every recognized option other
\* than config and output has a value that is not None, for every config
\* file and every commandline.  It fails for a config file that gives null
\* to such an option: settings.update copies the null.
C11_NoRecognizedOptionUnset ==
    Resolved => \A k \in ConcreteKeys : settings[k] # None

(***************************************************************************)
(* Further properties of a run, checked under Spec.                        *)
(***************************************************************************)
\* the current page is past page_scroll_down: its containers are being
\* looked up or extracted
PageScrolled == pc \in {"find_elements", "extract"}

\* C12 as stated: with fast active no layout selection and no PAGE_DOWN
\* event happens between the ready-check and the extraction of a page; with
\* fast inactive the layout is selected once and pagedown events are sent.
\* It fails: page_scroll_down is called whatever fast is.
C12_FastSkipsScrolling ==
    PageScrolled =>
        IF Truthy(settings["fast"])
        THEN clicks = 0 /\ keys = 0
        ELSE clicks = 1 /\ keys = settings["pagedown"][1]

\* C12, amended: with fast active only the layout selection is skipped: the
\* driver does not select the layout control, but it still sends exactly
\* pagedown PAGE_DOWN events on every page before the extraction; with fast
\* inactive the layout control is selected once per page and exactly
\* pagedown events are sent per page.
C12_FastSkipsLayoutOnly ==
    /\ InPageLoop => (clicks <= 1 /\ keys <= settings["pagedown"][1])
    /\ (InPageLoop /\ Truthy(settings["fast"])) => clicks = 0
    /\ PageScrolled =>
          /\ clicks = (IF Truthy(settings["fast"]) THEN 0 ELSE 1)
          /\ keys = settings["pagedown"][1]

\* a page of a fast run at its extraction, after ten PAGE_DOWN events and
\* no layout selection
C12_Witness ==
    /\ pc = "extract"
    /\ Truthy(settings["fast"])
    /\ settings["pagedown"] = Some(10)
    /\ keys = 10
    /\ clicks = 0
    /\ idx = 2

\* C13: on every page the ready loop polls at most 5 times, a poll that
\* finds the marker ends the loop, a poll that does not find it raises
\* nothing and only counts, and the loop always ends.
C13_ReadyCheckBounded ==
    /\ [](/\ attempt <= ReadyAttempts
          /\ pc = "ready_loop" => (attempt < ReadyAttempts /\ ~found)
          /\ (pc = "page_loaded" /\ ~found) => attempt = ReadyAttempts)
    /\ [][pc = "ready_loop" =>
            /\ attempt' = attempt + 1
            /\ raised' = raised
            /\ pc' = IF found' \/ attempt' = ReadyAttempts
                     THEN "page_loaded" ELSE "ready_loop"]_vars
    /\ (pc = "ready_loop") ~> (pc = "page_loaded")

\* two polls did not find the marker, the third did and ended the loop
C13_Witness ==
    /\ pc = "page_loaded"
    /\ found
    /\ attempt = 3
    /\ raised = ""

\* the places a record can come from: page i of the url sequence,
\* container j of that page in document order
Positions == (1 .. Len(url_list)) \X (1 .. MaxContainers)

RecordAt(p) == get_game_data(Container(p[1], p[2]))

\* page first, then document order within the page; the order is
\* transitive, so a sequence is ordered when its neighbours are
Before(p, q) == p[1] < q[1] \/ (p[1] = q[1] /\ p[2] < q[2])

\* C14: on a run that completes, the records (the elements after the
\* header) are ordered by the page they come from and then by document
\* order in the page; the urls are navigated to once each, in the order of
\* the sequence, and a navigation starts only when every container of the
\* page before it has been extracted.
C14_PageThenDocumentOrder ==
    /\ [](HeaderAdded =>
            /\ visited = url_list
            /\ \A a \in 2 .. Len(database) :
                  \E p \in Positions :
                     /\ database[a] = RecordAt(p)
                     /\ a < Len(database) =>
                           \E q \in Positions :
                              /\ Before(p, q)
                              /\ database[a + 1] = RecordAt(q))
    /\ [](visited = SubSeq(url_list, 1, Len(visited)))
    /\ [][visited' # visited =>
            /\ ci = ncontainers
            /\ Len(visited) < Len(url_list)
            /\ visited' = Append(visited, url_list[Len(visited) + 1])]_vars

\* a completed run over two pages with two records each
C14_Witness ==
    /\ pc = "exited"
    /\ raised = ""
    /\ Len(visited) = 2
    /\ Len(database) = 5
    /\ database[2] = RecordAt(<<1, 1>>)
    /\ database[3] = RecordAt(<<1, 2>>)
    /\ database[4] = RecordAt(<<2, 1>>)
    /\ database[5] = RecordAt(<<2, 2>>)

\* an exception left main before write_database was reached
AbortedBeforeWrite ==
    raised \in Uncaught \ {"FileNotFoundError in write_database",
                           "TypeError in write_database"}

\* the texts the final line can show for database_path
PathTexts ==
    {"None", ""} \cup
        (IF Resolved /\ settings["output"] # None
         THEN {AbsPath(settings["output"][1])} ELSE {})

\* every line of the form "<N> games processed in: <path>" of this run
CountLines ==
    {Str(n) \o " games processed in: " \o t :
        n \in 0 .. Len(url_list) * MaxContainers, t \in PathTexts}

\* C15: main calls write_database exactly when create_database has
\* returned and the resolved test is not true, and then settings.output is
\* a non-empty string; a test run writes no file, and a run that an
\* exception ends before that point writes no file and prints no count line.
C15_WriteIffCompletedAndNotTest ==
    /\ writes <= 1
    /\ writes = 1 =>
          /\ HeaderAdded
          /\ visited = url_list
          /\ ~Truthy(settings["test"])
          /\ TruthyStr(settings["output"])
    /\ (HeaderAdded /\ pc # "write_database") =>
          writes = (IF Truthy(settings["test"]) THEN 0 ELSE 1)
    /\ (Resolved /\ Truthy(settings["test"])) => outfile = None
    /\ outfile # None => writes = 1
    /\ raised # "TypeError in write_database"
    /\ AbortedBeforeWrite =>
          /\ writes = 0
          /\ outfile = None
          /\ \A i \in 1 .. Len(stdout) : stdout[i] \notin CountLines

\* the config file sets output to "", the run is not a test run: the
\* default output name is taken, write_database is called and writes it
C15_Witness ==
    /\ pc = "exited"
    /\ raised = ""
    /\ ConfigFileHas("output")
    /\ cfgfile.data["output"] = Some("")
    /\ arguments["output"] = None
    /\ writes = 1
    /\ outfile # None
    /\ stdout[Len(stdout)] \in CountLines
    /\ harvested = 2

====
